---- MODULE Spec2Model ----
(***************************************************************************)
(* Model of the two lesson_10 homework scripts:                            *)
(*   optical_flow_demo.py  (Pipeline A, sparse optical flow display)       *)
(*   tracker_compare.py    (Pipeline B, KCF/CSRT/MIL comparison)           *)
(* and of the pure helper overlay_image of tracker_compare.py.             *)
(* The vision library (video decode, corner detector, flow estimator,      *)
(* trackers, key poll) is external: each call is a nondeterministic choice *)
(* over the values the library can return.                                 *)
(* Coordinates the library returns are floats; they are modelled in half   *)
(* pixels, so that Python's int() is a real truncation (PyInt).            *)
(***************************************************************************)
EXTENDS Integers, Sequences, FiniteSets

VARIABLES
    \* ---- Pipeline A (optical_flow_demo.py) ----
    pc,                \* position of the script
    reads,             \* number of video.read() calls made
    frame,             \* the frame returned by the last successful read
    src_gray,          \* its grayscale conversion
    p_src,             \* point set (detector output, later rebound by the filter)
    prev_frame_gray,   \* reference frame of this iteration, or NoFrame
    p_dst,             \* destination points (after the filter)
    status,            \* status mask returned by the flow estimator
    prev_gray_frames,  \* deque(maxlen = frames_to_calc)
    output_frame,      \* the annotated copy of the frame
    displayed,         \* log: ids of the frames handed to cv2.imshow, in order
    console,           \* lines printed
    detected,          \* log: what the detector returned in this iteration
    flow_ret,          \* log: what the flow estimator returned in this iteration
    flow_ran,          \* log: the flow estimator was called in this iteration
    esc,               \* log: the cancel key was seen
    null_seen,         \* log: the detector returned None on some frame
    \* ---- Pipeline B (tracker_compare.py) ----
    pcB,               \* position of the script
    readsB,            \* number of video.read() calls made
    frameB,            \* id of the frame returned by the last successful read
    frame_shape,       \* <<height, width>> of the video's frames
    roi,               \* the rectangle returned by cv2.selectROI
    roi_image,         \* <<height, width>> of the snapshot cropped from frame 1
    results,           \* log: (success, bbox) each tracker returned on this frame
    updates,           \* log: number of update() calls per tracker
    bboxes,            \* list of the successful trackers' boxes
    output_frameB,     \* the composite
    shown,             \* log: composites handed to cv2.imshow, in order
    written,           \* composites appended to video_writer, in order
    released,          \* number of video_writer.release() calls
    consoleB,          \* lines printed
    escB,              \* log: the cancel key was seen
    \* ---- overlay_image as a pure function ----
    ov_in,             \* the arguments: shapes and offset
    ov_out,            \* the call's outcome
    ov_done

varsA == <<pc, reads, frame, src_gray, p_src, prev_frame_gray, p_dst, status,
           prev_gray_frames, output_frame, displayed, console, detected,
           flow_ret, flow_ran, esc, null_seen>>
varsB == <<pcB, readsB, frameB, frame_shape, roi, roi_image, results, updates,
           bboxes, output_frameB, shown, written, released, consoleB, escB>>
varsO == <<ov_in, ov_out, ov_done>>
vars == <<varsA, varsB, varsO>>

----------------------------------------------------------------------------
\* Bounds of the model.

\* longest video of Pipeline A, in frames
MaxFrames == 7
\* largest point set the detector returns
MaxPts == 2
\* longest video of Pipeline B, in frames read inside the loop
MaxFramesB == 2
\* largest image side for overlay_image
MaxDim == 3

----------------------------------------------------------------------------
\* Values shared by both scripts.

\* Python's int() on a float, the float given in half pixels: truncation to zero.
PyInt(v) == IF v >= 0 THEN v \div 2 ELSE -((-v) \div 2)

ESC == 27

\* what cv2.waitKey(1) can return: no key (-1), ESC, ESC with a modifier bit
\* above the low byte, another key
KeyCodes == {-1, 27, 283, 113}

\* cv2.waitKey(1) & 0xFF == 27
IsEsc(key) == (key % 256) = ESC

----------------------------------------------------------------------------
\* Pipeline A: optical_flow_demo.py

frames_to_calc == 5

NoFrame == [id |-> 0, gray |-> FALSE]
ColourFrame(n) == [id |-> n, gray |-> FALSE]

\* cv2.cvtColor(frame, cv2.COLOR_BGR2GRAY)
CvtGray(f) == [id |-> f.id, gray |-> TRUE]

\* point coordinates the library can return, in half pixels
Points == {<<3, 5>>, <<-1, 8>>}

SeqsUpTo(S, n) == UNION {[1..k -> S] : k \in 0..n}

\* an optional point set: None, or an array of points
NonePts == [none |-> TRUE, pts |-> <<>>]
SomePts(s) == [none |-> FALSE, pts |-> s]

\* cv2.goodFeaturesToTrack: None when no corner is found, else up to MaxPts points
DetectorOutputs == {NonePts} \cup {SomePts(s) : s \in SeqsUpTo(Points, MaxPts)}

NoFlow == [none |-> TRUE, p_dst |-> <<>>, status |-> <<>>]

\* cv2.calcOpticalFlowPyrLK on a non-null point set of length n: nothing
\* (None) or one destination and one status flag per point; with no points
\* it returns nothing
FlowOutputs(n) ==
    {NoFlow} \cup
    (IF n = 0 THEN {}
     ELSE {[none |-> FALSE, p_dst |-> d, status |-> s] :
              d \in [1..n -> Points], s \in [1..n -> {0, 1}]})

BlankOutput(f) == [base |-> f.id, corners |-> <<>>, arrows |-> <<>>, dots |-> <<>>]

\* a filter that keeps the points whose flag is 0
RECURSIVE BoolIndexInverted(_, _)
BoolIndexInverted(arr, mask) ==
    IF arr = <<>> THEN <<>>
    ELSE IF Head(mask) = 0
         THEN <<Head(arr)>> \o BoolIndexInverted(Tail(arr), Tail(mask))
         ELSE BoolIndexInverted(Tail(arr), Tail(mask))

\* arr[status == 1]
RECURSIVE BoolIndex(_, _)
BoolIndex(arr, mask) ==
    IF arr = <<>> THEN <<>>
    ELSE IF Head(mask) = 1
         THEN <<Head(arr)>> \o BoolIndex(Tail(arr), Tail(mask))
         ELSE BoolIndex(Tail(arr), Tail(mask))

\* pop() in place of popleft(): the newest element
PopRightValue(d) == d[Len(d)]

\* prev_gray_frames.popleft(): the element removed
PopLeftValue(d) == Head(d)
\* prev_gray_frames.popleft(): the deque left
PopLeftRest(d) == Tail(d)

\* prev_gray_frames.append(x) on a deque(maxlen = frames_to_calc)
DequeAppend(d, x) ==
    IF Len(d) >= frames_to_calc THEN Append(Tail(d), x) ELSE Append(d, x)

\* the point a drawing call receives: (int(x), int(y))
IntPt(p) == <<PyInt(p[1]), PyInt(p[2])>>

\* show_good_features: one filled circle of radius 5 per corner
show_good_features(out, corners) ==
    [out EXCEPT !.corners = out.corners \o [i \in 1..Len(corners) |-> IntPt(corners[i])]]

\* show_lines(frame_source, source, destination): zip(source, destination) is
\* unpacked as (dst, src); the arrow goes from (x_src, y_src) to (x_dst, y_dst)
\* and a circle of radius 10 is drawn at (x_src, y_src).
\* The colour is entry i % 100 of a random table; the index stands for it.
show_lines(out, source, destination) ==
    LET n == IF Len(source) <= Len(destination) THEN Len(source) ELSE Len(destination)
        dstOf(i) == source[i]
        srcOf(i) == destination[i]
    IN [out EXCEPT
          !.arrows = out.arrows \o
              [i \in 1..n |-> [from |-> IntPt(srcOf(i)), to |-> IntPt(dstOf(i)),
                               col |-> (i - 1) % 100]],
          !.dots = out.dots \o
              [i \in 1..n |-> [at |-> IntPt(srcOf(i)), col |-> (i - 1) % 100]]]

InitA ==
    /\ pc = "read"
    /\ reads = 0
    /\ frame = NoFrame
    /\ src_gray = NoFrame
    /\ p_src = NonePts
    /\ prev_frame_gray = NoFrame
    /\ p_dst = <<>>
    /\ status = <<>>
    /\ prev_gray_frames = <<>>
    /\ output_frame = BlankOutput(NoFrame)
    /\ displayed = <<>>
    /\ console = <<>>
    /\ detected = NonePts
    /\ flow_ret = NoFlow
    /\ flow_ran = FALSE
    /\ esc = FALSE
    /\ null_seen = FALSE

\* lines 51-60: a frame is read, converted, searched for corners and copied.
\* The names bound later in the iteration are dropped here: each is rebound
\* before the iteration reads it.
ReadFrame ==
    /\ pc = "read"
    /\ reads < MaxFrames
    /\ \E pts \in DetectorOutputs :
         /\ reads' = reads + 1
         /\ frame' = ColourFrame(reads + 1)
         /\ src_gray' = CvtGray(ColourFrame(reads + 1))
         /\ p_src' = pts
         /\ detected' = pts
         /\ null_seen' = (null_seen \/ pts.none)
         /\ output_frame' = BlankOutput(ColourFrame(reads + 1))
    /\ prev_frame_gray' = NoFrame
    /\ p_dst' = <<>>
    /\ status' = <<>>
    /\ flow_ret' = NoFlow
    /\ flow_ran' = FALSE
    /\ pc' = "ref"
    /\ UNCHANGED <<varsB, varsO, prev_gray_frames, displayed, console, esc>>

\* the break without the message
EndOfVideoSilent ==
    /\ pc = "read"
    /\ reads <= MaxFrames
    /\ reads' = reads + 1
    /\ pc' = "exit"
    /\ UNCHANGED <<varsB, varsO, frame, src_gray, p_src, prev_frame_gray, p_dst,
                   status, prev_gray_frames, output_frame, displayed, console,
                   detected, flow_ret, flow_ran, esc, null_seen>>

\* lines 51-55: the read fails; "End of video." and break
EndOfVideo ==
    /\ pc = "read"
    /\ reads <= MaxFrames
    /\ reads' = reads + 1
    /\ console' = Append(console, "End of video.")
    /\ pc' = "exit"
    /\ UNCHANGED <<varsB, varsO, frame, src_gray, p_src, prev_frame_gray, p_dst, status,
                   prev_gray_frames, output_frame, displayed, detected,
                   flow_ret, flow_ran, esc, null_seen>>

\* lines 62-65: the reference frame
TakeReference ==
    /\ pc = "ref"
    /\ IF Len(prev_gray_frames) >= frames_to_calc
       THEN /\ prev_frame_gray' = PopLeftValue(prev_gray_frames)
            /\ prev_gray_frames' = PopLeftRest(prev_gray_frames)
       ELSE /\ prev_frame_gray' = NoFrame
            /\ prev_gray_frames' = prev_gray_frames
    /\ pc' = "flow"
    /\ UNCHANGED <<varsB, varsO, reads, frame, src_gray, p_src, p_dst, status, output_frame,
                   displayed, console, detected, flow_ret, flow_ran, esc, null_seen>>

\* lines 67-75 with no reference frame: nothing is computed
SkipFlow ==
    /\ pc = "flow"
    /\ prev_frame_gray = NoFrame
    /\ pc' = "features"
    /\ UNCHANGED <<varsB, varsO, reads, frame, src_gray, p_src, prev_frame_gray, p_dst, status,
                   prev_gray_frames, output_frame, displayed, console, detected,
                   flow_ret, flow_ran, esc, null_seen>>

\* line 68 with p_src = None: the library rejects the null point array
FlowRaises ==
    /\ pc = "flow"
    /\ prev_frame_gray # NoFrame
    /\ p_src.none
    /\ flow_ran' = TRUE
    /\ pc' = "crashed"
    /\ UNCHANGED <<varsB, varsO, reads, frame, src_gray, p_src, prev_frame_gray, p_dst, status,
                   prev_gray_frames, output_frame, displayed, console, detected,
                   flow_ret, esc, null_seen>>

\* lines 67-75 with a reference frame and a point array
Flow ==
    /\ pc = "flow"
    /\ prev_frame_gray # NoFrame
    /\ ~p_src.none
    /\ \E r \in FlowOutputs(Len(p_src.pts)) :
         /\ flow_ret' = r
         /\ IF ~r.none
            THEN /\ p_dst' = BoolIndex(r.p_dst, r.status)
                 /\ p_src' = SomePts(BoolIndex(p_src.pts, r.status))
                 /\ status' = r.status
                 /\ output_frame' = show_lines(output_frame,
                                              BoolIndex(p_src.pts, r.status),
                                              BoolIndex(r.p_dst, r.status))
            ELSE /\ p_dst' = <<>>          \* p_dst and status are None
                 /\ status' = <<>>
                 /\ UNCHANGED <<varsB, varsO, p_src, output_frame>>
    /\ flow_ran' = TRUE
    /\ pc' = "features"
    /\ UNCHANGED <<varsB, varsO, reads, frame, src_gray, prev_frame_gray, prev_gray_frames,
                   displayed, console, detected, esc, null_seen>>

\* line 77 with p_src = None: "for corner in corners" raises TypeError
FeaturesRaise ==
    /\ pc = "features"
    /\ p_src.none
    /\ pc' = "crashed"
    /\ UNCHANGED <<varsB, varsO, reads, frame, src_gray, p_src, prev_frame_gray, p_dst, status,
                   prev_gray_frames, output_frame, displayed, console, detected,
                   flow_ret, flow_ran, esc, null_seen>>

\* line 77
Features ==
    /\ pc = "features"
    /\ ~p_src.none
    /\ output_frame' = show_good_features(output_frame, p_src.pts)
    /\ pc' = "show"
    /\ UNCHANGED <<varsB, varsO, reads, frame, src_gray, p_src, prev_frame_gray, p_dst, status,
                   prev_gray_frames, displayed, console, detected, flow_ret,
                   flow_ran, esc, null_seen>>

\* line 79
Show ==
    /\ pc = "show"
    /\ displayed' = Append(displayed, output_frame.base)
    /\ pc' = "key"
    /\ UNCHANGED <<varsB, varsO, reads, frame, src_gray, p_src, prev_frame_gray, p_dst, status,
                   prev_gray_frames, output_frame, console, detected, flow_ret,
                   flow_ran, esc, null_seen>>

\* lines 82-83
WaitKey ==
    /\ pc = "key"
    /\ \E key \in KeyCodes :
         IF IsEsc(key)
         THEN /\ esc' = TRUE
              /\ pc' = "exit"
         ELSE /\ esc' = esc
              /\ pc' = "append"
    /\ UNCHANGED <<varsB, varsO, reads, frame, src_gray, p_src, prev_frame_gray, p_dst, status,
                   prev_gray_frames, output_frame, displayed, console, detected,
                   flow_ret, flow_ran, null_seen>>

\* lines 85-86
AppendHistory ==
    /\ pc = "append"
    /\ prev_gray_frames' = DequeAppend(prev_gray_frames, src_gray)
    /\ pc' = "read"
    /\ UNCHANGED <<varsB, varsO, reads, frame, src_gray, p_src, prev_frame_gray, p_dst, status,
                   output_frame, displayed, console, detected, flow_ret,
                   flow_ran, esc, null_seen>>

\* lines 88-89
ExitA ==
    /\ pc = "exit"
    /\ console' = Append(console, "Tracking ended.")
    /\ pc' = "done"
    /\ UNCHANGED <<varsB, varsO, reads, frame, src_gray, p_src, prev_frame_gray, p_dst, status,
                   prev_gray_frames, output_frame, displayed, detected, flow_ret,
                   flow_ran, esc, null_seen>>

NextA ==
    \/ ReadFrame
    \/ EndOfVideo
    \/ TakeReference
    \/ SkipFlow
    \/ FlowRaises
    \/ Flow
    \/ FeaturesRaise
    \/ Features
    \/ Show
    \/ WaitKey
    \/ AppendHistory
    \/ ExitA

----------------------------------------------------------------------------
\* Images, with numpy's slicing and slice assignment.

Min(a, b) == IF a <= b THEN a ELSE b
Max(a, b) == IF a >= b THEN a ELSE b

\* an image of the given shape whose pixel (r, c) is <<tag, r, c>>
Image(tag, shape) ==
    [h |-> shape[1], w |-> shape[2],
     px |-> [rc \in (0..(shape[1] - 1)) \X (0..(shape[2] - 1)) |-> <<tag, rc[1], rc[2]>>]]

\* a slice bound i on an axis of length n: negative bounds count from the end,
\* and the result is clamped to 0..n
SliceBound(i, n) == IF i < 0 THEN Max(i + n, 0) ELSE Min(i, n)

\* img[r0:r1, c0:c1]
Crop(img, r0, r1, c0, c1) ==
    LET rs == SliceBound(r0, img.h)
        re == Max(SliceBound(r1, img.h), rs)
        cs == SliceBound(c0, img.w)
        ce == Max(SliceBound(c1, img.w), cs)
    IN [h |-> re - rs, w |-> ce - cs,
        px |-> [rc \in (0..(re - rs - 1)) \X (0..(ce - cs - 1)) |->
                   img.px[<<rc[1] + rs, rc[2] + cs>>]]]

\* img[r0:r1, c0:c1] = src: src must have the target's shape, or 1 where it
\* differs (broadcast); otherwise numpy raises ValueError
SliceAssign(img, r0, r1, c0, c1, src) ==
    LET rs == SliceBound(r0, img.h)
        re == Max(SliceBound(r1, img.h), rs)
        cs == SliceBound(c0, img.w)
        ce == Max(SliceBound(c1, img.w), cs)
        fits == /\ (src.h = re - rs \/ src.h = 1)
                /\ (src.w = ce - cs \/ src.w = 1)
        from(rc) == <<IF src.h = 1 THEN 0 ELSE rc[1] - rs,
                      IF src.w = 1 THEN 0 ELSE rc[2] - cs>>
    IN IF ~fits
       THEN [raised |-> TRUE, image |-> img]
       ELSE [raised |-> FALSE,
             image |-> [img EXCEPT !.px =
                 [rc \in DOMAIN img.px |->
                     IF rc[1] >= rs /\ rc[1] < re /\ rc[2] >= cs /\ rc[2] < ce
                     THEN src.px[from(rc)]
                     ELSE img.px[rc]]]]

\* the paste without the clipping of w and h to the background
overlay_unclipped(background, foreground, x, y) ==
    SliceAssign(background, y, y + foreground.h, x, x + foreground.w, foreground)

\* overlay_image(background, foreground, x, y): the background after the call,
\* or the exception
overlay_image(background, foreground, x, y) ==
    LET fg_height == foreground.h
        fg_width == foreground.w
        bg_height == background.h
        bg_width == background.w
        w == Min(fg_width, bg_width - x)
        h == Min(fg_height, bg_height - y)
        fg1 == IF w < fg_width \/ h < fg_height
               THEN Crop(foreground, 0, h, 0, w)
               ELSE foreground
    IN SliceAssign(background, y, y + h, x, x + w, Crop(fg1, 0, h, 0, w))

----------------------------------------------------------------------------
\* Pipeline B: tracker_compare.py

\* trackers, lines 49-65
Trackers ==
    <<[name |-> "KCF", color |-> <<0, 0, 255>>],
      [name |-> "CSRT", color |-> <<255, 0, 0>>],
      [name |-> "MIL", color |-> <<255, 255, 0>>]>>

\* <<height, width>> of the video's frames
FrameShape == <<MaxDim, MaxDim + 1>>

FrameB(n) == Image(n, FrameShape)
NoImage == Image(0, <<0, 0>>)

\* rectangles (x, y, w, h) cv2.selectROI can return: the empty one when the
\* selection is cancelled, the whole frame, an inner rectangle
ROIs ==
    {<<0, 0, 0, 0>>,
     <<0, 0, FrameShape[2], FrameShape[1]>>,
     <<1, 1, FrameShape[2] - 2, FrameShape[1] - 1>>}

\* boxes (x, y, w, h) a tracker can report, in half pixels
Boxes == {<<4, 2, 6, 3>>, <<3, 7, 2, 8>>}
ZeroBox == <<0, 0, 0, 0>>

\* what tracker.update(frame) can return
UpdateOutputs ==
    {[success |-> FALSE, bbox |-> ZeroBox]} \cup
    {[success |-> TRUE, bbox |-> b] : b \in Boxes}

BlankComposite ==
    [base |-> 0, image |-> NoImage, rects |-> <<>>, texts |-> <<>>]

\* the offsets of draw_rect, lines 15-16
dx == <<0, 1, 0, 1>>
dy == <<0, 0, 1, 1>>

\* draw_rect(frame_2_draw, rect, color, text, index)
draw_rect(out, rect, color, text, index) ==
    LET x == PyInt(rect[1])
        y == PyInt(rect[2])
        w == PyInt(rect[3])
        h == PyInt(rect[4])
    IN [out EXCEPT
          !.rects = Append(out.rects,
                           [p1 |-> <<x, y>>, p2 |-> <<x + w, y + h>>, color |-> color]),
          !.texts = Append(out.texts,
                           [text |-> text,
                            org |-> <<x + dx[(index % 4) + 1] * w,
                                      y + dy[(index % 4) + 1] * h>>,
                            color |-> color])]

\* the loop without the test of success
RECURSIVE CollectAllBoxes(_, _, _)
CollectAllBoxes(res, i, acc) ==
    IF i > Len(Trackers) THEN acc
    ELSE CollectAllBoxes(res, i + 1,
            Append(acc, [tracker |-> Trackers[i].name,
                         bbox |-> res[i].bbox,
                         color |-> Trackers[i].color]))

\* lines 83-92: the loop over the trackers, from tracker i on
RECURSIVE CollectBoxes(_, _, _)
CollectBoxes(res, i, acc) ==
    IF i > Len(Trackers) THEN acc
    ELSE CollectBoxes(res, i + 1,
            IF res[i].success
            THEN Append(acc, [tracker |-> Trackers[i].name,
                              bbox |-> res[i].bbox,
                              color |-> Trackers[i].color])
            ELSE acc)

\* lines 98-99: for i, bbox in enumerate(bboxes), from list position i (0-based) on
RECURSIVE DrawBoxes(_, _, _)
DrawBoxes(out, bs, i) ==
    IF i >= Len(bs) THEN out
    ELSE DrawBoxes(draw_rect(out, bs[i + 1].bbox, bs[i + 1].color, bs[i + 1].tracker, i),
                   bs, i + 1)

NoResults == [i \in 1..Len(Trackers) |-> [success |-> FALSE, bbox |-> ZeroBox]]

InitB ==
    /\ pcB = "start"
    /\ readsB = 0
    /\ frameB = 0
    /\ frame_shape = <<0, 0>>
    /\ roi = ZeroBox
    /\ roi_image = NoImage
    /\ results = NoResults
    /\ updates = [i \in 1..Len(Trackers) |-> 0]
    /\ bboxes = <<>>
    /\ output_frameB = BlankComposite
    /\ shown = <<>>
    /\ written = <<>>
    /\ released = 0
    /\ consoleB = <<>>
    /\ escB = FALSE

\* lines 39-42: the first read fails, ValueError
FirstReadFails ==
    /\ pcB = "start"
    /\ readsB' = 1
    /\ pcB' = "crashed"
    /\ UNCHANGED <<varsA, varsO, frameB, frame_shape, roi, roi_image, results, updates, bboxes,
                   output_frameB, shown, written, released, consoleB, escB>>

\* lines 39-72: first frame, selection, snapshot, trackers, writer
Setup ==
    /\ pcB = "start"
    /\ readsB' = 1
    /\ frameB' = 1
    /\ frame_shape' = FrameShape
    /\ \E r \in ROIs :
         /\ roi' = r
         /\ roi_image' = Crop(FrameB(1), PyInt(2 * r[2]), PyInt(2 * (r[2] + r[4])),
                              PyInt(2 * r[1]), PyInt(2 * (r[1] + r[3])))
    /\ pcB' = "read"
    /\ UNCHANGED <<varsA, varsO, results, updates, bboxes, output_frameB, shown, written,
                   released, consoleB, escB>>

\* lines 75-79, the read succeeds
ReadB ==
    /\ pcB = "read"
    /\ readsB <= MaxFramesB
    /\ readsB' = readsB + 1
    /\ frameB' = readsB + 1
    /\ pcB' = "update"
    /\ UNCHANGED <<varsA, varsO, frame_shape, roi, roi_image, results, updates, bboxes,
                   output_frameB, shown, written, released, consoleB, escB>>

\* lines 75-79, the read fails
EndOfVideoB ==
    /\ pcB = "read"
    /\ readsB' = readsB + 1
    /\ consoleB' = Append(consoleB, "End of video.")
    /\ pcB' = "exit"
    /\ UNCHANGED <<varsA, varsO, frameB, frame_shape, roi, roi_image, results, updates, bboxes,
                   output_frameB, shown, written, released, escB>>

\* lines 81-92
UpdateTrackers ==
    /\ pcB = "update"
    /\ \E res \in [1..Len(Trackers) -> UpdateOutputs] :
         /\ results' = res
         /\ bboxes' = CollectBoxes(res, 1, <<>>)
    /\ updates' = [i \in 1..Len(Trackers) |-> updates[i] + 1]
    /\ pcB' = "compose"
    /\ UNCHANGED <<varsA, varsO, readsB, frameB, frame_shape, roi, roi_image, output_frameB,
                   shown, written, released, consoleB, escB>>

\* lines 95-99
Compose ==
    /\ pcB = "compose"
    /\ LET o == overlay_image(FrameB(frameB), roi_image, 0, 0)
       IN IF o.raised
          THEN /\ pcB' = "crashed"
               /\ UNCHANGED output_frameB
          ELSE /\ pcB' = "show"
               /\ output_frameB' =
                     DrawBoxes([base |-> frameB, image |-> o.image,
                                rects |-> <<>>, texts |-> <<>>], bboxes, 0)
    /\ UNCHANGED <<varsA, varsO, readsB, frameB, frame_shape, roi, roi_image, results, updates,
                   bboxes, shown, written, released, consoleB, escB>>

\* line 101
ShowB ==
    /\ pcB = "show"
    /\ shown' = Append(shown, output_frameB)
    /\ pcB' = "write"
    /\ UNCHANGED <<varsA, varsO, readsB, frameB, frame_shape, roi, roi_image, results, updates,
                   bboxes, output_frameB, written, released, consoleB, escB>>

\* the frame written in place of the composite
WriteRawFrame ==
    /\ pcB = "write"
    /\ written' = Append(written, [base |-> frameB, image |-> FrameB(frameB),
                                   rects |-> <<>>, texts |-> <<>>])
    /\ pcB' = "key"
    /\ UNCHANGED <<varsA, varsO, readsB, frameB, frame_shape, roi, roi_image,
                   results, updates, bboxes, output_frameB, shown, released,
                   consoleB, escB>>

\* line 103
WriteB ==
    /\ pcB = "write"
    /\ written' = Append(written, output_frameB)
    /\ pcB' = "key"
    /\ UNCHANGED <<varsA, varsO, readsB, frameB, frame_shape, roi, roi_image, results, updates,
                   bboxes, output_frameB, shown, released, consoleB, escB>>

\* lines 106-109
WaitKeyB ==
    /\ pcB = "key"
    /\ \E key \in KeyCodes :
         IF IsEsc(key)
         THEN /\ escB' = TRUE
              /\ pcB' = "exit"
         ELSE /\ escB' = escB
              /\ pcB' = "read"
    /\ UNCHANGED <<varsA, varsO, readsB, frameB, frame_shape, roi, roi_image, results, updates,
                   bboxes, output_frameB, shown, written, released, consoleB>>

\* lines 111-114
ExitB ==
    /\ pcB = "exit"
    /\ released' = released + 1
    /\ consoleB' = Append(consoleB, "Tracking ended.")
    /\ pcB' = "done"
    /\ UNCHANGED <<varsA, varsO, readsB, frameB, frame_shape, roi, roi_image, results, updates,
                   bboxes, output_frameB, shown, written, escB>>

NextB ==
    \/ FirstReadFails
    \/ Setup
    \/ ReadB
    \/ EndOfVideoB
    \/ UpdateTrackers
    \/ Compose
    \/ ShowB
    \/ WriteB
    \/ WaitKeyB
    \/ ExitB

----------------------------------------------------------------------------
\* overlay_image on its own: every background, foreground and offset within
\* the bounds, then the call.

Shapes(lo) == (lo..MaxDim) \X (lo..MaxDim)

NoCall == [raised |-> FALSE, image |-> NoImage]
IdleCall == [bg |-> <<1, 1>>, fg |-> <<0, 0>>, x |-> 0, y |-> 0]

InitO ==
    /\ ov_in \in [bg : Shapes(1), fg : Shapes(0),
                  x : 0..(MaxDim - 1), y : 0..(MaxDim - 1)]
    /\ ov_out = NoCall
    /\ ov_done = FALSE

\* the call overlay_image(background, foreground, x, y)
CallOverlay ==
    /\ ~ov_done
    /\ ov_out' = overlay_image(Image(0, ov_in.bg), Image(1, ov_in.fg), ov_in.x, ov_in.y)
    /\ ov_done' = TRUE
    /\ UNCHANGED <<varsA, varsB, ov_in>>

NextO == CallOverlay

----------------------------------------------------------------------------
\* The specifications: one script (or the function) runs, the rest is idle.

StartA == InitA /\ InitB /\ ov_in = IdleCall /\ ov_out = NoCall /\ ov_done = TRUE
StartB == StartA
StartO == InitA /\ InitB /\ InitO

SpecA == StartA /\ [][NextA]_vars
FairSpecA == SpecA /\ WF_vars(NextA)
SpecB == StartB /\ [][NextB]_vars
SpecOverlay == StartO /\ [][NextO]_vars

----------------------------------------------------------------------------
\* Properties of Pipeline A.

Gray(n) == CvtGray(ColourFrame(n))

\* the script is inside iteration number `reads`, past the choice of the reference
PastReference == pc \in {"flow", "features", "show", "key", "append"}

\* buf holds the grayscale frames of consecutive iterations, the newest being `last`
Consecutive(buf, last) ==
    \A i \in 1..Len(buf) : buf[i] = Gray(last - Len(buf) + i)

\* C1: the history never holds more than frames_to_calc frames; on iterations
\* 1..frames_to_calc no reference is taken and the flow estimator is not
\* called; on iteration n > frames_to_calc the reference is the grayscale
\* frame appended on iteration n - frames_to_calc, the oldest one buffered.
C1_HistoryReference ==
    /\ Len(prev_gray_frames) <= frames_to_calc
    /\ pc \in {"read", "ref"} /\ reads >= 1 =>
          LET done == IF pc = "read" THEN reads ELSE reads - 1
          IN /\ Consecutive(prev_gray_frames, done)
             /\ Len(prev_gray_frames) = Min(done, frames_to_calc)
    /\ PastReference \/ pc = "crashed" =>
          IF reads <= frames_to_calc
          THEN /\ prev_frame_gray = NoFrame
               /\ ~flow_ran
               /\ flow_ret = NoFlow
               /\ Len(prev_gray_frames) = reads - 1
               /\ Consecutive(prev_gray_frames, reads - 1)
          ELSE /\ prev_frame_gray = Gray(reads - frames_to_calc)
               /\ Len(prev_gray_frames) = frames_to_calc - 1
               /\ Consecutive(prev_gray_frames, reads - 1)
               /\ \A i \in 1..Len(prev_gray_frames) :
                     prev_gray_frames[i].id > prev_frame_gray.id

\* the second reference taken: iteration frames_to_calc + 2 compares with frame 2
C1_Witness ==
    /\ pc = "flow"
    /\ reads = frames_to_calc + 2
    /\ prev_frame_gray = Gray(2)
    /\ Len(prev_gray_frames) = frames_to_calc - 1

NoCancelNoNull == ~esc /\ ~null_seen

UpTo(n) == [i \in 1..n |-> i]

\* C3: when the cancel key is never pressed and the detector never returns
\* None, the run ends at the first failed read: no exception, frames 1..m
\* displayed in order (m + 1 being the failed read), no read after it,
\* "End of video." then "Tracking ended." printed.
C3_CleanEndOfStream ==
    /\ [](NoCancelNoNull =>
            /\ pc # "crashed"
            /\ pc = "exit" => /\ displayed = UpTo(reads - 1)
                              /\ console = <<"End of video.">>
            /\ pc = "done" => /\ displayed = UpTo(reads - 1)
                              /\ console = <<"End of video.", "Tracking ended.">>
            /\ pc \notin {"exit", "done"} => console = <<>>)
    /\ [][(pc \in {"exit", "done"}) => (reads' = reads)]_vars
    /\ ([]NoCancelNoNull => <>(pc = "done"))

\* a video of 6 frames (one of them compared with frame 1) has ended cleanly
C3_Witness ==
    /\ pc = "done"
    /\ NoCancelNoNull
    /\ reads = frames_to_calc + 2
    /\ displayed = UpTo(frames_to_calc + 1)
    /\ console = <<"End of video.", "Tracking ended.">>

NoPoints(d) == d.none \/ d.pts = <<>>

\* C4: when the detector returns no points (None or an empty array), nothing
\* is drawn, the unannotated frame is displayed and appended to the history,
\* and no error is raised.
C4_NoPointsHarmless ==
    reads >= 1 /\ pc \notin {"exit", "done"} /\ NoPoints(detected) =>
        /\ pc # "crashed"
        /\ output_frame = BlankOutput(frame)
        /\ pc \in {"key", "append", "read"} =>
              displayed # <<>> /\ displayed[Len(displayed)] = frame.id
        /\ pc = "read" =>
              prev_gray_frames # <<>> /\ prev_gray_frames[Len(prev_gray_frames)] = src_gray

\* the filter's outcome is on the frame: the corner circles have been drawn
CornersDrawn == pc \in {"show", "key", "append"}

\* C5: the corner circles drawn on an iteration are the full detected point
\* set, whatever the status mask; with every flag 0 no arrow is drawn and
\* every detected corner still has its circle.
C5_CirclesAtAllDetected ==
    CornersDrawn =>
        /\ output_frame.corners =
              [i \in 1..Len(detected.pts) |-> IntPt(detected.pts[i])]
        /\ (~flow_ret.none /\ \A i \in DOMAIN flow_ret.status : flow_ret.status[i] = 0)
              => output_frame.arrows = <<>>

\* the indices flagged 1
Ones(mask) == {i \in DOMAIN mask : mask[i] = 1}

\* C9: the filtered source and destination sets have the length of the number
\* of flags equal to 1, and their j-th points both come from the j-th flagged
\* index of the detector's and the estimator's arrays.
C9_FilterInLockStep ==
    ~flow_ret.none =>
        LET n == Len(detected.pts)
            m == Cardinality(Ones(flow_ret.status))
        IN /\ Len(flow_ret.p_dst) = n /\ Len(flow_ret.status) = n
           /\ Len(p_src.pts) = m
           /\ Len(p_dst) = m
           /\ \E f \in [1..m -> 1..n] :
                 /\ \A j \in 1..m : f[j] \in Ones(flow_ret.status)
                 /\ \A j, k \in 1..m : j < k => f[j] < f[k]
                 /\ \A j \in 1..m : /\ p_src.pts[j] = detected.pts[f[j]]
                                    /\ p_dst[j] = flow_ret.p_dst[f[j]]

\* two points, the first lost and the second tracked to another place
C9_Witness ==
    /\ pc = "features"
    /\ ~flow_ret.none
    /\ flow_ret.status = <<0, 1>>
    /\ detected.pts[1] # detected.pts[2]
    /\ flow_ret.p_dst[2] # detected.pts[2]
    /\ Len(p_src.pts) = 1

\* C10: the arrow of every tracked point starts at its source point (the corner
\* of the current frame) and its head is at the destination point (the
\* estimator's position).
C10_ArrowSourceToDestination ==
    (pc \in {"features", "show", "key", "append"} /\ ~flow_ret.none) =>
        /\ Len(output_frame.arrows) = Len(p_src.pts)
        /\ \A j \in 1..Len(output_frame.arrows) :
              /\ output_frame.arrows[j].from = IntPt(p_src.pts[j])
              /\ output_frame.arrows[j].to = IntPt(p_dst[j])

----------------------------------------------------------------------------
\* Properties of Pipeline B.

\* the composite of the current frame is complete
Composed == pcB \in {"show", "write", "key"}

Succeeded == {i \in 1..Len(Trackers) : results[i].success}

\* the rectangle draw_rect draws for a reported box
RectOf(b) ==
    [p1 |-> <<PyInt(b[1]), PyInt(b[2])>>,
     p2 |-> <<PyInt(b[1]) + PyInt(b[3]), PyInt(b[2]) + PyInt(b[4])>>]

\* C2: the boxes on a frame's composite are those of the trackers that
\* reported success on that frame, one each, in tracker-list order, with the
\* tracker's name and colour; a failure draws nothing, does not stop the
\* loop, and every tracker is updated again on every frame read.
C2_BoxesOfSuccessfulTrackers ==
    /\ Composed =>
          LET out == output_frameB
              m == Cardinality(Succeeded)
          IN /\ out.base = frameB
             /\ Len(out.rects) = m
             /\ Len(out.texts) = m
             /\ \E f \in [1..m -> 1..Len(Trackers)] :
                   /\ \A j \in 1..m : f[j] \in Succeeded
                   /\ \A j, k \in 1..m : j < k => f[j] < f[k]
                   /\ \A j \in 1..m :
                         /\ out.rects[j].p1 = RectOf(results[f[j]].bbox).p1
                         /\ out.rects[j].p2 = RectOf(results[f[j]].bbox).p2
                         /\ out.rects[j].color = Trackers[f[j]].color
                         /\ out.texts[j].text = Trackers[f[j]].name
                         /\ out.texts[j].color = Trackers[f[j]].color
    /\ pcB = "crashed" => readsB = 1
    /\ \A i \in 1..Len(Trackers) :
          /\ pcB \in {"compose", "show", "write", "key"} => updates[i] = readsB - 1
          /\ pcB = "update" => updates[i] = readsB - 2

\* on the second frame of the loop the middle tracker fails, as it did or did
\* not on the first, and the other two are drawn
C2_Witness ==
    /\ pcB = "show"
    /\ frameB = 3
    /\ Succeeded = {1, 3}
    /\ Len(output_frameB.rects) = 2
    /\ output_frameB.texts[2].text = "MIL"
    /\ updates[2] = 2

\* C6: the label of tracker i of the tracker set (KCF 0, CSRT 1, MIL 2) is at
\* the box origin plus (dx[i mod 4] * w, dy[i mod 4] * h) on every frame on
\* which its box is drawn, whatever the other trackers report.
C6_LabelCornerByTrackerIndex ==
    Composed =>
        \A t \in Succeeded :
            \E j \in 1..Len(output_frameB.texts) :
                LET b == results[t].bbox
                    i == t - 1
                IN /\ output_frameB.texts[j].text = Trackers[t].name
                   /\ output_frameB.texts[j].org =
                         <<PyInt(b[1]) + dx[(i % 4) + 1] * PyInt(b[3]),
                           PyInt(b[2]) + dy[(i % 4) + 1] * PyInt(b[4])>>

\* frames read inside the loop so far
LoopFrames == IF pcB \in {"exit", "done"} /\ ~escB THEN readsB - 2 ELSE readsB - 1

IsPrefix(a, b) == Len(a) <= Len(b) /\ \A i \in 1..Len(a) : a[i] = b[i]

\* C7: every composite displayed is appended to the output sink once, in read
\* order, the frame of the cancel key included; the sink is released once,
\* on both ways out of the loop, after the last append, and nothing is
\* appended after the release.
C7_SinkAppendsThenRelease ==
    /\ [](/\ IsPrefix(written, shown)
          /\ Len(shown) - Len(written) = (IF pcB = "write" THEN 1 ELSE 0)
          /\ \A i \in 1..Len(shown) : shown[i].base = i + 1
          /\ pcB \in {"read", "exit", "done"} => Len(written) = LoopFrames
          /\ released = (IF pcB = "done" THEN 1 ELSE 0)
          /\ pcB = "done" => written = shown)
    /\ [][(released >= 1) => (written' = written /\ released' = released)]_vars
    /\ [][(pcB = "exit") => (pcB' = "done" /\ released' = 1 /\ written' = written)]_vars

\* the cancel key on the second frame of the loop: two composites written,
\* the sink released
C7_Witness ==
    /\ pcB = "done"
    /\ escB
    /\ released = 1
    /\ Len(written) = 2
    /\ written = shown
    /\ written[2].base = 3
    /\ written[2].rects # <<>>

----------------------------------------------------------------------------
\* Property of overlay_image.

\* C8: with 0 <= x < background width and 0 <= y < background height the call
\* does not fail and writes only the rectangle [x, x+w) x [y, y+h), with
\* w = min(fg_width, bg_width - x) and h = min(fg_height, bg_height - y), which
\* lies inside the background and receives the top-left w x h part of the
\* foreground.
C8_OverlayClipped ==
    (ov_done /\ ov_in.x < ov_in.bg[2] /\ ov_in.y < ov_in.bg[1]) =>
        LET x == ov_in.x
            y == ov_in.y
            w == Min(ov_in.fg[2], ov_in.bg[2] - x)
            h == Min(ov_in.fg[1], ov_in.bg[1] - y)
            res == ov_out.image
        IN /\ ~ov_out.raised
           /\ w >= 0 /\ h >= 0
           /\ x + w <= ov_in.bg[2]
           /\ y + h <= ov_in.bg[1]
           /\ res.h = ov_in.bg[1] /\ res.w = ov_in.bg[2]
           /\ DOMAIN res.px = (0..(res.h - 1)) \X (0..(res.w - 1))
           /\ \A rc \in DOMAIN res.px :
                 IF rc[1] >= y /\ rc[1] < y + h /\ rc[2] >= x /\ rc[2] < x + w
                 THEN res.px[rc] = <<1, rc[1] - y, rc[2] - x>>
                 ELSE res.px[rc] = <<0, rc[1], rc[2]>>

\* a foreground that overhangs the background on both sides, pasted off the origin
C8_Witness ==
    /\ ov_done
    /\ ~ov_out.raised
    /\ ov_in.x > 0 /\ ov_in.y > 0
    /\ ov_in.x < ov_in.bg[2] /\ ov_in.y < ov_in.bg[1]
    /\ ov_in.fg[2] > ov_in.bg[2] - ov_in.x
    /\ ov_in.fg[1] > ov_in.bg[1] - ov_in.y
    /\ ov_out.image.px[<<ov_in.y, ov_in.x>>] = <<1, 0, 0>>

====
